---- MODULE Spec2Model ----
(***************************************************************************)
(* Model of md_strava_viz_final.py: the CSV loader (read_csv_file,         *)
(* process_single_row, convert_to_number), the categorizer                 *)
(* (separate_running_and_cycling), the aggregator functions and main().    *)
(* Spec is a run of main(); SpecRow, SpecCall, SpecTimeOfDay and            *)
(* SpecMonthly call one function directly on arguments of their own.       *)
(*                                                                         *)
(* Texts are sequences of tokens (one-character strings, or one token for  *)
(* a word whose inner characters no operation of the program looks at).    *)
(* Floats are modelled as exact rationals plus nan, inf and -inf; rounding *)
(* and overflow of finite values are not modelled.                         *)
(***************************************************************************)
EXTENDS Integers, Sequences, FiniteSets, TLC

VARIABLES
    pc,          \* position of main(): "start", "reading", "loaded", "menu", "done", "crashed"
    source,      \* the file main() reads: [kind, rows]
    idx,         \* number of rows the loop of read_csv_file has consumed
    activities,  \* read_csv_file's list `activities`, then main's all_activities
    printed,     \* diagnostics printed so far, in order
    raised,      \* the exception that left main(), or "none"
    running_activities, cycling_activities, other_activities,  \* main's three lists
    choice,      \* main's menu choice
    out,         \* what the last menu iteration computed
    row,         \* argument of a direct call of process_single_row
    rowRes,      \* its result
    argA, argB,  \* arguments of a direct call of an aggregator function
    argC,        \* third argument of a direct call of analyze_monthly_patterns
    libc_pads_year,  \* whether strftime('%Y') of the platform pads a year below 1000 to four digits
    ret          \* what the call returned

vars == <<pc, source, idx, activities, printed, raised, running_activities,
          cycling_activities, other_activities, choice, out, row, rowRes,
          argA, argB, argC, libc_pads_year, ret>>

mainVars == <<pc, source, idx, activities, printed, raised, running_activities,
              cycling_activities, other_activities, choice, out>>
rowVars == <<row, rowRes>>
argVars == <<argA, argB, argC, libc_pads_year>>
callVars == <<argVars, ret>>

-----------------------------------------------------------------------------
(* Bounds of the model *)

MaxRows == 2      \* rows of a file
MaxEdits == 1     \* cells of a row that differ from a base row
MaxColl == 2      \* activities of a collection passed to an aggregator function
MaxHourColl == 3  \* activities of a collection passed to analyze_time_of_day_patterns
MaxMonths == 13   \* consecutive months the activities passed to analyze_monthly_patterns lie in

-----------------------------------------------------------------------------
(* Floats *)

Abs(i) == IF i < 0 THEN -i ELSE i

RECURSIVE GCD(_, _)
GCD(a, b) == IF b = 0 THEN a ELSE GCD(b, a % b)

\* the finite float n/d (d > 0), in lowest terms
Fin(n, d) ==
    LET g == GCD(Abs(n), d)
    IN  [k |-> "fin", n |-> n \div g, d |-> d \div g]

Num(i) == [k |-> "fin", n |-> i, d |-> 1]
NaN == [k |-> "nan", n |-> 0, d |-> 1]
PosInf == [k |-> "inf", n |-> 1, d |-> 1]
NegInf == [k |-> "inf", n |-> -1, d |-> 1]
Zero == Num(0)

IsNaN(x) == x.k = "nan"
IsFinite(x) == x.k = "fin"
Sgn(x) == IF x.n > 0 THEN 1 ELSE IF x.n < 0 THEN -1 ELSE 0

\* a > b on floats: every comparison with nan is false
Gt(a, b) ==
    IF IsNaN(a) \/ IsNaN(b) THEN FALSE
    ELSE IF a.k = "inf" /\ b.k = "inf" THEN a.n > b.n
    ELSE IF a.k = "inf" THEN a.n > 0
    ELSE IF b.k = "inf" THEN b.n < 0
    ELSE a.n * b.d > b.n * a.d
Lt(a, b) == Gt(b, a)
\* a == b on floats
FEq(a, b) == ~IsNaN(a) /\ ~IsNaN(b) /\ a = b
Le(a, b) == Lt(a, b) \/ FEq(a, b)
Ne(a, b) == ~FEq(a, b)

Add(a, b) ==
    IF IsNaN(a) \/ IsNaN(b) THEN NaN
    ELSE IF a.k = "inf" /\ b.k = "inf" THEN (IF a.n = b.n THEN a ELSE NaN)
    ELSE IF a.k = "inf" THEN a
    ELSE IF b.k = "inf" THEN b
    ELSE Fin(a.n * b.d + b.n * a.d, a.d * b.d)

Mul(a, b) ==
    IF IsNaN(a) \/ IsNaN(b) THEN NaN
    ELSE IF a.k = "inf" \/ b.k = "inf"
         THEN (IF Sgn(a) * Sgn(b) = 0 THEN NaN
               ELSE IF Sgn(a) * Sgn(b) > 0 THEN PosInf ELSE NegInf)
    ELSE Fin(a.n * b.n, a.d * b.d)

\* the outcome of a / b when Python raises ZeroDivisionError
ZeroDivisionError == [k |-> "ZeroDivisionError", n |-> 0, d |-> 1]
IsError(x) == x.k = "ZeroDivisionError"

\* a / b: raises when b == 0, and an error in an operand propagates
Div(a, b) ==
    IF IsError(a) \/ IsError(b) THEN ZeroDivisionError
    ELSE IF FEq(b, Zero) THEN ZeroDivisionError
    ELSE IF IsNaN(a) \/ IsNaN(b) THEN NaN
    ELSE IF a.k = "inf" /\ b.k = "inf" THEN NaN
    ELSE IF a.k = "inf" THEN (IF Sgn(a) * Sgn(b) > 0 THEN PosInf ELSE NegInf)
    ELSE IF b.k = "inf" THEN Zero
    ELSE IF b.n > 0 THEN Fin(a.n * b.d, a.d * b.n)
    ELSE Fin(-(a.n * b.d), a.d * (-b.n))

-----------------------------------------------------------------------------
(* Texts *)

SP == " "
QT == "\""
\* the value None of a cell the row is too short to have
None == <<"<None>">>

\* str.strip(chars): drops the characters of `chars` from both ends
RECURSIVE LStrip(_, _)
LStrip(t, chars) ==
    IF t # <<>> /\ Head(t) \in chars THEN LStrip(Tail(t), chars) ELSE t
RECURSIVE RStrip(_, _)
RStrip(t, chars) ==
    IF t # <<>> /\ t[Len(t)] \in chars THEN RStrip(SubSeq(t, 1, Len(t) - 1), chars) ELSE t
Strip(t, chars) == RStrip(LStrip(t, chars), chars)
Whitespace == {SP, "\t"}

\* float(token): the number a word reads as, for the words of this model
FloatWords == {"0", "5", "10", "5.2", "12.5", "-3", "-0.5", "2", "8", "150",
               "1500", "3000", "nan", "inf", "-inf"}
FloatOfWord(w) ==
    CASE w = "0" -> Zero
      [] w = "5" -> Num(5)
      [] w = "10" -> Num(10)
      [] w = "5.2" -> Fin(26, 5)
      [] w = "12.5" -> Fin(25, 2)
      [] w = "-3" -> Num(-3)
      [] w = "-0.5" -> Fin(-1, 2)
      [] w = "2" -> Num(2)
      [] w = "8" -> Num(8)
      [] w = "150" -> Num(150)
      [] w = "1500" -> Num(1500)
      [] w = "3000" -> Num(3000)
      [] w = "nan" -> NaN
      [] w = "inf" -> PosInf
      [] w = "-inf" -> NegInf

\* float(text) succeeds, after its own trimming, on one float word
FloatParses(t) == Len(Strip(t, Whitespace)) = 1 /\ Strip(t, Whitespace)[1] \in FloatWords

\* a converter that clamps negative numbers to the zero default
convert_to_number_clamped(text_value) ==
    IF text_value = None \/ text_value = <<>> \/ Strip(text_value, Whitespace) = <<>>
    THEN Zero
    ELSE IF FloatParses(Strip(text_value, Whitespace))
              /\ ~Lt(FloatOfWord(Strip(text_value, Whitespace)[1]), Zero)
         THEN FloatOfWord(Strip(text_value, Whitespace)[1])
         ELSE Zero

convert_to_number(text_value) ==
    IF text_value = None \/ text_value = <<>> \/ Strip(text_value, Whitespace) = <<>>
    THEN Zero
    ELSE IF FloatParses(Strip(text_value, Whitespace))
         THEN FloatOfWord(Strip(text_value, Whitespace)[1])
         ELSE Zero

-----------------------------------------------------------------------------
(* Dates *)

\* The date words of this model as strptime's pattern '%d %b %Y, %H:%M:%S'
\* reads them: fmt is whether the word matches the pattern at all (two-digit
\* day, a comma, hour 00..23, ...), month is 0 for a name that is no month.
DateWords == {"01 Jan 2024, 12:00:00", "29 Feb 2024, 05:30:00", "30 Feb 2024, 08:00:00",
              "15 Mar 2023, 24:00:00", "31 Dec 2023, 23:59:59", "07 jul 2024, 00:00:00",
              "2024-01-01 12:00:00", "03 Aug 2022, 18:45:10"}
DateFields(w) ==
    CASE w = "01 Jan 2024, 12:00:00" ->
            [fmt |-> TRUE, day |-> 1, month |-> 1, year |-> 2024, hour |-> 12, minute |-> 0, second |-> 0]
      [] w = "29 Feb 2024, 05:30:00" ->
            [fmt |-> TRUE, day |-> 29, month |-> 2, year |-> 2024, hour |-> 5, minute |-> 30, second |-> 0]
      [] w = "30 Feb 2024, 08:00:00" ->
            [fmt |-> TRUE, day |-> 30, month |-> 2, year |-> 2024, hour |-> 8, minute |-> 0, second |-> 0]
      [] w = "15 Mar 2023, 24:00:00" ->
            [fmt |-> FALSE, day |-> 15, month |-> 3, year |-> 2023, hour |-> 24, minute |-> 0, second |-> 0]
      [] w = "31 Dec 2023, 23:59:59" ->
            [fmt |-> TRUE, day |-> 31, month |-> 12, year |-> 2023, hour |-> 23, minute |-> 59, second |-> 59]
      [] w = "07 jul 2024, 00:00:00" ->
            [fmt |-> TRUE, day |-> 7, month |-> 7, year |-> 2024, hour |-> 0, minute |-> 0, second |-> 0]
      [] w = "2024-01-01 12:00:00" ->
            [fmt |-> FALSE, day |-> 1, month |-> 1, year |-> 2024, hour |-> 12, minute |-> 0, second |-> 0]
      [] w = "03 Aug 2022, 18:45:10" ->
            [fmt |-> TRUE, day |-> 3, month |-> 8, year |-> 2022, hour |-> 18, minute |-> 45, second |-> 10]

IsLeap(y) == y % 4 = 0 /\ (y % 100 # 0 \/ y % 400 = 0)
DaysInMonth(y, m) ==
    IF m = 2 THEN (IF IsLeap(y) THEN 29 ELSE 28)
    ELSE IF m \in {4, 6, 9, 11} THEN 30 ELSE 31
DaysBeforeYear(y) == (y - 1) * 365 + (y - 1) \div 4 - (y - 1) \div 100 + (y - 1) \div 400
RECURSIVE DaysBeforeMonth(_, _)
DaysBeforeMonth(y, m) == IF m = 1 THEN 0 ELSE DaysBeforeMonth(y, m - 1) + DaysInMonth(y, m - 1)
ToOrdinal(dt) == DaysBeforeYear(dt.year) + DaysBeforeMonth(dt.year, dt.month) + dt.day
\* datetime.weekday(): Monday is 0
Weekday(dt) == (ToOrdinal(dt) + 6) % 7
DayNames == <<"Monday", "Tuesday", "Wednesday", "Thursday", "Friday", "Saturday", "Sunday">>

\* datetime.strptime(date_text, '%d %b %Y, %H:%M:%S') returns a datetime; otherwise
\* it raises ValueError (text that does not match the pattern, a day the month lacks)
StrptimeOk(t) ==
    /\ Len(t) = 1
    /\ t[1] \in DateWords
    /\ DateFields(t[1]).fmt
    /\ DateFields(t[1]).month \in 1..12
    /\ DateFields(t[1]).day \in 1..DaysInMonth(DateFields(t[1]).year, DateFields(t[1]).month)
    /\ DateFields(t[1]).hour \in 0..23
    /\ DateFields(t[1]).minute \in 0..59
    /\ DateFields(t[1]).second \in 0..59
Strptime(t) ==
    [year |-> DateFields(t[1]).year, month |-> DateFields(t[1]).month, day |-> DateFields(t[1]).day,
     hour |-> DateFields(t[1]).hour, minute |-> DateFields(t[1]).minute,
     second |-> DateFields(t[1]).second]

-----------------------------------------------------------------------------
(* Rows of the CSV file *)

\* the header, in the order the documentation of read_csv_file gives
ColumnOrder == <<"Activity Name", "Activity Type", "Activity Description", "Activity Gear",
                 "Distance_KM", "Moving Time", "Elapsed Time", "Elevation Low",
                 "Elevation High", "Max Heart Rate", "Max Speed", "Max Grade",
                 "Average Grade", "Average Speed", "Commute", "Activity Date">>
Columns == {ColumnOrder[i] : i \in 1..Len(ColumnOrder)}

\* csv.DictReader on a line of n cells: a column the line has no cell for is None
ShortRow(r, n) == [c \in Columns |-> IF \E i \in 1..n : ColumnOrder[i] = c THEN r[c] ELSE None]

\* str.upper() on the words of a Commute cell
UpperWord(w) == IF w \in {"true", "True", "TRUE"} THEN "TRUE" ELSE w
Upper(t) == [i \in 1..Len(t) |-> UpperWord(t[i])]

\* 3.6 and the other float literals of the code
KmhPerMs == Fin(18, 5)

\* process_single_row(row): [activity |-> <<a>>] for a returned activity a and
\* [activity |-> <<>>] for None, with the diagnostic the call printed
Rejected(kind, name) == [activity |-> <<>>, printed |-> <<[kind |-> kind, name |-> name]>>]

process_single_row(r) ==
    LET name == r["Activity Name"]
        distance_km == convert_to_number(r["Distance_KM"])
        time_seconds == convert_to_number(r["Moving Time"])
        max_speed == convert_to_number(r["Max Speed"])
        speed_ms == convert_to_number(r["Average Speed"])
        date_text == Strip(Strip(r["Activity Date"], Whitespace), {QT})
        activity ==
            [name |-> name,
             type |-> r["Activity Type"],
             description |-> r["Activity Description"],
             gear |-> r["Activity Gear"],
             distance_km |-> distance_km,
             time_seconds |-> time_seconds,
             elapsed_time |-> convert_to_number(r["Elapsed Time"]),
             elevation_low |-> convert_to_number(r["Elevation Low"]),
             elevation_high |-> convert_to_number(r["Elevation High"]),
             max_heart_rate |-> convert_to_number(r["Max Heart Rate"]),
             max_speed |-> max_speed,
             max_grade |-> convert_to_number(r["Max Grade"]),
             avg_grade |-> convert_to_number(r["Average Grade"]),
             avg_speed_kmh |-> IF Gt(speed_ms, Zero) THEN Mul(speed_ms, KmhPerMs) ELSE Zero,
             max_speed_kmh |-> IF Gt(max_speed, Zero) THEN Mul(max_speed, KmhPerMs) ELSE Zero,
             is_commute |-> Upper(r["Commute"]) = <<"TRUE">>,
             pace_min_per_km |->
                 IF Gt(distance_km, Zero) /\ Gt(time_seconds, Zero)
                 THEN Div(Div(time_seconds, distance_km), Num(60))
                 ELSE Zero,
             date |-> Strptime(date_text),
             day_of_week |-> DayNames[Weekday(Strptime(date_text)) + 1],
             hour |-> Strptime(date_text).hour]
    IN  IF r["Commute"] = None THEN Rejected("Problem processing", name)  \* None.upper()
        ELSE IF r["Activity Date"] = None THEN Rejected("Problem processing", name)  \* None.strip()
        ELSE IF date_text = <<>> THEN Rejected("Skipping no date", name)
        ELSE IF ~StrptimeOk(date_text) THEN Rejected("Problem processing", name)  \* ValueError
        ELSE IF Le(distance_km, Zero) THEN Rejected("Skipping no distance", name)
        ELSE [activity |-> <<activity>>, printed |-> <<>>]

-----------------------------------------------------------------------------
(* The rows the model reads *)

RowMorningRun ==
    "Activity Name" :> <<"Morning jog">> @@
    "Activity Type" :> <<"M", "o", "r", "n", "i", "n", "g", " ", "R", "u", "n">> @@
    "Activity Description" :> <<"easy">> @@
    "Activity Gear" :> <<"Shoes">> @@
    "Distance_KM" :> <<"10">> @@
    "Moving Time" :> <<"3000">> @@
    "Elapsed Time" :> <<"3000">> @@
    "Elevation Low" :> <<"-3">> @@
    "Elevation High" :> <<"150">> @@
    "Max Heart Rate" :> <<"150">> @@
    "Max Speed" :> <<"8">> @@
    "Max Grade" :> <<"5.2">> @@
    "Average Grade" :> <<"-0.5">> @@
    "Average Speed" :> <<"2">> @@
    "Commute" :> <<"FALSE">> @@
    "Activity Date" :> <<"01 Jan 2024, 12:00:00">>

RowRoadRide ==
    "Activity Name" :> <<"Lunch ride">> @@
    "Activity Type" :> <<"R", "o", "a", "d", " ", "R", "i", "d", "e">> @@
    "Activity Description" :> <<>> @@
    "Activity Gear" :> <<"Bike">> @@
    "Distance_KM" :> <<"12.5">> @@
    "Moving Time" :> <<"1500">> @@
    "Elapsed Time" :> <<"3000">> @@
    "Elevation Low" :> <<"10">> @@
    "Elevation High" :> <<"150">> @@
    "Max Heart Rate" :> <<>> @@
    "Max Speed" :> <<"10">> @@
    "Max Grade" :> <<>> @@
    "Average Grade" :> <<"0">> @@
    "Average Speed" :> <<"8">> @@
    "Commute" :> <<"true">> @@
    "Activity Date" :> <<QT, "29 Feb 2024, 05:30:00", QT>>

RowYoga ==
    "Activity Name" :> <<"Stretch">> @@
    "Activity Type" :> <<"Y", "o", "g", "a">> @@
    "Activity Description" :> <<>> @@
    "Activity Gear" :> <<>> @@
    "Distance_KM" :> <<"2">> @@
    "Moving Time" :> <<>> @@
    "Elapsed Time" :> <<"1500">> @@
    "Elevation Low" :> <<>> @@
    "Elevation High" :> <<>> @@
    "Max Heart Rate" :> <<>> @@
    "Max Speed" :> <<>> @@
    "Max Grade" :> <<>> @@
    "Average Grade" :> <<>> @@
    "Average Speed" :> <<>> @@
    "Commute" :> <<>> @@
    "Activity Date" :> <<SP, "31 Dec 2023, 23:59:59", SP>>

RowRunCommute ==
    "Activity Name" :> <<"To work">> @@
    "Activity Type" :> <<"R", "u", "n", " ", "C", "o", "m", "m", "u", "t", "e">> @@
    "Activity Description" :> <<>> @@
    "Activity Gear" :> <<"Shoes">> @@
    "Distance_KM" :> <<"5">> @@
    "Moving Time" :> <<>> @@
    "Elapsed Time" :> <<"1500">> @@
    "Elevation Low" :> <<>> @@
    "Elevation High" :> <<>> @@
    "Max Heart Rate" :> <<"150">> @@
    "Max Speed" :> <<>> @@
    "Max Grade" :> <<"-3">> @@
    "Average Grade" :> <<>> @@
    "Average Speed" :> <<>> @@
    "Commute" :> <<"TRUE">> @@
    "Activity Date" :> <<"07 jul 2024, 00:00:00">>

RowEBike ==
    "Activity Name" :> <<"Hill loop">> @@
    "Activity Type" :> <<"E", "-", "B", "I", "K", "E">> @@
    "Activity Description" :> <<>> @@
    "Activity Gear" :> <<>> @@
    "Distance_KM" :> <<"5.2">> @@
    "Moving Time" :> <<"3000">> @@
    "Elapsed Time" :> <<"3000">> @@
    "Elevation Low" :> <<"5">> @@
    "Elevation High" :> <<"150">> @@
    "Max Heart Rate" :> <<>> @@
    "Max Speed" :> <<"5">> @@
    "Max Grade" :> <<"10">> @@
    "Average Grade" :> <<"2">> @@
    "Average Speed" :> <<"abc">> @@
    "Commute" :> <<>> @@
    "Activity Date" :> <<"03 Aug 2022, 18:45:10">>

RowRideRun ==
    "Activity Name" :> <<"Brick">> @@
    "Activity Type" :> <<"R", "i", "d", "e", "+", "R", "u", "n">> @@
    "Activity Description" :> <<>> @@
    "Activity Gear" :> <<>> @@
    "Distance_KM" :> <<"5">> @@
    "Moving Time" :> <<"1500">> @@
    "Elapsed Time" :> <<"1500">> @@
    "Elevation Low" :> <<>> @@
    "Elevation High" :> <<>> @@
    "Max Heart Rate" :> <<>> @@
    "Max Speed" :> <<"2">> @@
    "Max Grade" :> <<"2">> @@
    "Average Grade" :> <<"nan">> @@
    "Average Speed" :> <<"5">> @@
    "Commute" :> <<>> @@
    "Activity Date" :> <<"01 Jan 2024, 12:00:00">>

RowNoDistance ==
    "Activity Name" :> <<"Weights">> @@
    "Activity Type" :> <<"W", "o", "r", "k", "o", "u", "t">> @@
    "Activity Description" :> <<>> @@
    "Activity Gear" :> <<>> @@
    "Distance_KM" :> <<"0">> @@
    "Moving Time" :> <<"1500">> @@
    "Elapsed Time" :> <<"1500">> @@
    "Elevation Low" :> <<>> @@
    "Elevation High" :> <<>> @@
    "Max Heart Rate" :> <<"150">> @@
    "Max Speed" :> <<>> @@
    "Max Grade" :> <<>> @@
    "Average Grade" :> <<>> @@
    "Average Speed" :> <<>> @@
    "Commute" :> <<>> @@
    "Activity Date" :> <<"29 Feb 2024, 05:30:00">>

RowNoDate ==
    "Activity Name" :> <<"Old run">> @@
    "Activity Type" :> <<"R", "u", "n">> @@
    "Activity Description" :> <<>> @@
    "Activity Gear" :> <<>> @@
    "Distance_KM" :> <<"5">> @@
    "Moving Time" :> <<"1500">> @@
    "Elapsed Time" :> <<"1500">> @@
    "Elevation Low" :> <<>> @@
    "Elevation High" :> <<>> @@
    "Max Heart Rate" :> <<>> @@
    "Max Speed" :> <<>> @@
    "Max Grade" :> <<>> @@
    "Average Grade" :> <<>> @@
    "Average Speed" :> <<>> @@
    "Commute" :> <<>> @@
    "Activity Date" :> <<QT, QT>>

RowBadDate ==
    "Activity Name" :> <<"Import">> @@
    "Activity Type" :> <<"V", "i", "r", "t", "u", "a", "l", " ", "C", "y", "c", "l", "i", "n", "g">> @@
    "Activity Description" :> <<>> @@
    "Activity Gear" :> <<>> @@
    "Distance_KM" :> <<"10">> @@
    "Moving Time" :> <<"1500">> @@
    "Elapsed Time" :> <<"1500">> @@
    "Elevation Low" :> <<>> @@
    "Elevation High" :> <<>> @@
    "Max Heart Rate" :> <<>> @@
    "Max Speed" :> <<>> @@
    "Max Grade" :> <<>> @@
    "Average Grade" :> <<>> @@
    "Average Speed" :> <<>> @@
    "Commute" :> <<>> @@
    "Activity Date" :> <<"30 Feb 2024, 08:00:00">>

RowNanDistance ==
    "Activity Name" :> <<"Glitch">> @@
    "Activity Type" :> <<"T", "r", "a", "i", "l", " ", "R", "u", "n">> @@
    "Activity Description" :> <<>> @@
    "Activity Gear" :> <<>> @@
    "Distance_KM" :> <<"nan">> @@
    "Moving Time" :> <<"1500">> @@
    "Elapsed Time" :> <<"1500">> @@
    "Elevation Low" :> <<>> @@
    "Elevation High" :> <<>> @@
    "Max Heart Rate" :> <<>> @@
    "Max Speed" :> <<"2">> @@
    "Max Grade" :> <<"5">> @@
    "Average Grade" :> <<>> @@
    "Average Speed" :> <<"2">> @@
    "Commute" :> <<>> @@
    "Activity Date" :> <<"31 Dec 2023, 23:59:59">>

\* a line of the file that ends after its fourth cell
RowShort == ShortRow(RowMorningRun, 4)

RowPool == {RowMorningRun, RowRoadRide, RowYoga, RowRunCommute, RowEBike, RowRideRun,
            RowNoDistance, RowNoDate, RowNanDistance, RowShort}

BaseRows == RowPool \cup {RowBadDate}

\* the texts a cell of column c takes
NumberTexts == {<<>>, <<SP>>, <<"abc">>, <<"0">>, <<"5">>, <<SP, "12.5", SP>>, <<"5", SP, "2">>,
                <<"-3">>, <<"-0.5">>, <<"nan">>, <<"inf">>, <<"-inf">>, <<"3000">>}
DateTexts == {<<>>, <<SP, SP>>, <<QT, QT>>, <<QT, SP, QT>>, <<QT, SP, "01 Jan 2024, 12:00:00", QT>>,
              <<SP, QT, "29 Feb 2024, 05:30:00", QT, SP>>, <<"15 Mar 2023, 24:00:00">>,
              <<"2024-01-01 12:00:00">>, <<"30 Feb 2024, 08:00:00">>, <<"abc">>,
              <<"03 Aug 2022, 18:45:10">>, <<"07 jul 2024, 00:00:00">>}
TypeTexts == {<<>>, <<"R", "U", "N">>, <<"B", "i", "k", "e", " ", "r", "i", "d", "e">>, <<"B", "r", "u", "n", "c", "h">>,
              <<"C", "y", "c", "l", "i", "n", "g", " ", "r", "u", "n">>, <<"S", "w", "i", "m">>}
CommuteTexts == {<<>>, <<"TRUE">>, <<"True">>, <<"FALSE">>, <<SP, "TRUE">>}
NumberColumns == {"Distance_KM", "Moving Time", "Elapsed Time", "Elevation Low", "Elevation High",
                  "Max Heart Rate", "Max Speed", "Max Grade", "Average Grade", "Average Speed"}
CellTexts(c) ==
    IF c \in NumberColumns THEN NumberTexts
    ELSE IF c = "Activity Date" THEN DateTexts
    ELSE IF c = "Activity Type" THEN TypeTexts
    ELSE IF c = "Commute" THEN CommuteTexts
    ELSE {<<>>, <<"x">>}

\* one change of a row: a cell takes another text, or the line ends after n cells
NoEdit == [col |-> "", text |-> <<>>, cells |-> Len(ColumnOrder)]
Edits ==
    UNION {{[col |-> c, text |-> t, cells |-> Len(ColumnOrder)] : t \in CellTexts(c)} : c \in Columns}
    \cup {[col |-> "", text |-> <<>>, cells |-> n] : n \in 1..(Len(ColumnOrder) - 1)}
    \cup {NoEdit}
ApplyEdit(r, e) ==
    IF e.cells < Len(ColumnOrder) THEN ShortRow(r, e.cells)
    ELSE IF e.col = "" THEN r
    ELSE [r EXCEPT ![e.col] = e.text]
\* the row r after the first n changes of es
RECURSIVE EditedRow(_, _, _)
EditedRow(r, es, n) == IF n = 0 THEN r ELSE ApplyEdit(EditedRow(r, es, n - 1), es[n])

-----------------------------------------------------------------------------
(* separate_running_and_cycling *)

UpperLetters == <<"A", "B", "C", "D", "E", "F", "G", "H", "I", "J", "K", "L", "M",
                  "N", "O", "P", "Q", "R", "S", "T", "U", "V", "W", "X", "Y", "Z">>
LowerLetters == <<"a", "b", "c", "d", "e", "f", "g", "h", "i", "j", "k", "l", "m",
                  "n", "o", "p", "q", "r", "s", "t", "u", "v", "w", "x", "y", "z">>
LowerChar(c) ==
    IF \E i \in 1..26 : UpperLetters[i] = c
    THEN LowerLetters[CHOOSE i \in 1..26 : UpperLetters[i] = c]
    ELSE c
\* str.lower()
Lower(t) == [i \in 1..Len(t) |-> LowerChar(t[i])]
\* `w in t` on strings
Contains(t, w) == \E i \in 1..(Len(t) - Len(w) + 1) : SubSeq(t, i, i + Len(w) - 1) = w

KwRun == <<"r", "u", "n">>
KwCycling == <<<<"r", "i", "d", "e">>, <<"c", "y", "c", "l", "i", "n", "g">>, <<"b", "i", "k", "e">>>>

\* the list lines 159-164 append an activity of this type to
BucketCyclingFirst(type) ==
    IF \E j \in 1..Len(KwCycling) : Contains(Lower(type), KwCycling[j]) THEN "cycling"
    ELSE IF Contains(Lower(type), KwRun) THEN "running"
    ELSE "other"
Bucket(type) ==
    IF Contains(Lower(type), KwRun) THEN "running"
    ELSE IF \E j \in 1..Len(KwCycling) : Contains(Lower(type), KwCycling[j]) THEN "cycling"
    ELSE "other"

NoLists == [running |-> <<>>, cycling |-> <<>>, other |-> <<>>]

\* the loop of lines 156-164 over the first n activities
RECURSIVE SeparateTwoIfs(_, _)
SeparateTwoIfs(acts, n) ==
    IF n = 0 THEN NoLists
    ELSE LET lists == SeparateTwoIfs(acts, n - 1)
             t == Lower(acts[n].type)
             isRun == Contains(t, KwRun)
             isCycle == \E j \in 1..Len(KwCycling) : Contains(t, KwCycling[j])
         IN  [running |-> IF isRun THEN Append(lists.running, acts[n]) ELSE lists.running,
              cycling |-> IF isCycle THEN Append(lists.cycling, acts[n]) ELSE lists.cycling,
              other |-> IF ~isRun /\ ~isCycle THEN Append(lists.other, acts[n]) ELSE lists.other]
RECURSIVE SeparateLoop(_, _)
SeparateLoop(acts, n) ==
    IF n = 0 THEN NoLists
    ELSE LET lists == SeparateLoop(acts, n - 1)
             b == Bucket(acts[n].type)
         IN  [lists EXCEPT ![b] = Append(@, acts[n])]

separate_running_and_cycling(acts) == SeparateLoop(acts, Len(acts))

-----------------------------------------------------------------------------
(* Helpers of the aggregator: sum, statistics.mean, statistics.median, max, min *)

RECURSIVE SumTo(_, _)
SumTo(s, n) == IF n = 0 THEN Zero ELSE Add(SumTo(s, n - 1), s[n])
\* sum(s)
Sum(s) == SumTo(s, Len(s))
\* statistics.mean(s), s not empty
Mean(s) == Div(Sum(s), Num(Len(s)))

\* max(s): the first element that no later element is greater than
RECURSIVE MaxTo(_, _)
MaxTo(s, n) == IF n = 1 THEN s[1] ELSE LET b == MaxTo(s, n - 1) IN IF Gt(s[n], b) THEN s[n] ELSE b
Max(s) == MaxTo(s, Len(s))
RECURSIVE MinTo(_, _)
MinTo(s, n) == IF n = 1 THEN s[1] ELSE LET b == MinTo(s, n - 1) IN IF Lt(s[n], b) THEN s[n] ELSE b
Min(s) == MinTo(s, Len(s))

\* sorted(s)
RECURSIVE Insert(_, _)
Insert(s, x) ==
    IF s = <<>> THEN <<x>>
    ELSE IF Lt(x, Head(s)) THEN <<x>> \o s
    ELSE <<Head(s)>> \o Insert(Tail(s), x)
RECURSIVE SortedTo(_, _)
SortedTo(s, n) == IF n = 0 THEN <<>> ELSE Insert(SortedTo(s, n - 1), s[n])
Sorted(s) == SortedTo(s, Len(s))
\* statistics.median(s), s not empty
Median(s) ==
    LET d == Sorted(s)
        n == Len(s)
    IN  IF n % 2 = 1 THEN d[n \div 2 + 1]
        ELSE Div(Add(d[n \div 2], d[n \div 2 + 1]), Num(2))

\* [a[key] for a in acts]
Values(acts, key) == [i \in 1..Len(acts) |-> acts[i][key]]
\* [a[key] for a in acts if a[key] > 0]
PositiveValues(acts, key) ==
    LET Positive(x) == Gt(x, Zero) IN SelectSeq(Values(acts, key), Positive)
\* the filter of the other lists, `> 0`, used for the average grades too
NonZeroValuesPositiveOnly(acts, key) ==
    LET Positive(x) == Gt(x, Zero) IN SelectSeq(Values(acts, key), Positive)
\* [a[key] for a in acts if a[key] != 0]
NonZeroValues(acts, key) ==
    LET NonZero(x) == Ne(x, Zero) IN SelectSeq(Values(acts, key), NonZero)

\* max(acts, key=...) and min(acts, key=...): the first activity with the extreme key
RECURSIVE MaxByTo(_, _, _)
MaxByTo(acts, key, n) ==
    IF n = 1 THEN acts[1]
    ELSE LET b == MaxByTo(acts, key, n - 1) IN IF Gt(acts[n][key], b[key]) THEN acts[n] ELSE b
MaxBy(acts, key) == MaxByTo(acts, key, Len(acts))
RECURSIVE MinByTo(_, _, _)
MinByTo(acts, key, n) ==
    IF n = 1 THEN acts[1]
    ELSE LET b == MinByTo(acts, key, n - 1) IN IF Lt(acts[n][key], b[key]) THEN acts[n] ELSE b
MinBy(acts, key) == MinByTo(acts, key, Len(acts))

\* `activity_type.lower() == 'running'`
IsRunningName(activity_type) == Lower(activity_type) = <<"r", "u", "n", "n", "i", "n", "g">>

\* format_pace(pace): int(pace) raises on an infinity (OverflowError) and on nan (ValueError)
FormatPaceRaises(pace) == ~Le(pace, Zero) /\ ~IsFinite(pace)

-----------------------------------------------------------------------------
(* calculate_advanced_stats *)

StatKeys == {"count", "total_distance", "total_time_hours", "total_elapsed_hours",
             "commute_count", "avg_distance", "median_distance", "max_distance",
             "min_distance", "avg_speed", "max_speed", "avg_max_hr", "avg_pace",
             "best_pace", "avg_max_grade", "steepest_grade", "avg_grade"}

\* the dictionary {}
EmptyDict == <<>>

\* `f(xs) if xs else 0`
MeanOr0(xs) == IF xs # <<>> THEN Mean(xs) ELSE Zero
MedianOr0(xs) == IF xs # <<>> THEN Median(xs) ELSE Zero
MaxOr0(xs) == IF xs # <<>> THEN Max(xs) ELSE Zero
MinOr0(xs) == IF xs # <<>> THEN Min(xs) ELSE Zero

\* the dictionary `stats` of lines 198-216
StatsDict(acts) ==
    LET commutes == LET IsCommute(a) == a.is_commute IN SelectSeq(acts, IsCommute)
        distances == PositiveValues(acts, "distance_km")
        speeds == PositiveValues(acts, "avg_speed_kmh")
        max_speeds == PositiveValues(acts, "max_speed_kmh")
        heart_rates == PositiveValues(acts, "max_heart_rate")
        paces == PositiveValues(acts, "pace_min_per_km")
        max_grades == PositiveValues(acts, "max_grade")
        avg_grades == NonZeroValues(acts, "avg_grade")
    IN  [count |-> Num(Len(acts)),
         total_distance |-> Sum(Values(acts, "distance_km")),
         total_time_hours |-> Div(Sum(Values(acts, "time_seconds")), Num(3600)),
         total_elapsed_hours |-> Div(Sum(Values(acts, "elapsed_time")), Num(3600)),
         commute_count |-> Num(Len(commutes)),
         avg_distance |-> MeanOr0(distances),
         median_distance |-> MedianOr0(distances),
         max_distance |-> MaxOr0(distances),
         min_distance |-> MinOr0(distances),
         avg_speed |-> MeanOr0(speeds),
         max_speed |-> MaxOr0(max_speeds),
         avg_max_hr |-> MeanOr0(heart_rates),
         avg_pace |-> MeanOr0(paces),
         best_pace |-> MinOr0(paces),
         avg_max_grade |-> MeanOr0(max_grades),
         steepest_grade |-> MaxOr0(max_grades),
         avg_grade |-> MeanOr0(avg_grades)]

\* the function without the early return of lines 173-175
calculate_advanced_stats_no_guard(acts, activity_type_name) ==
    [fn |-> "calculate_advanced_stats", arg |-> activity_type_name,
     printed |-> "DETAILED STATISTICS", stats |-> StatsDict(acts), raised |-> "none"]

\* calculate_advanced_stats(activities, activity_type_name): the dictionary it builds,
\* what it prints first, and the exception that leaves it instead of the return
calculate_advanced_stats(acts, activity_type_name) ==
    IF acts = <<>>
    THEN [fn |-> "calculate_advanced_stats", arg |-> activity_type_name,
          printed |-> "No activities found", stats |-> EmptyDict, raised |-> "none"]
    ELSE LET stats == StatsDict(acts)
         IN  [fn |-> "calculate_advanced_stats", arg |-> activity_type_name,
              printed |-> "DETAILED STATISTICS", stats |-> stats,
              raised |-> IF /\ PositiveValues(acts, "pace_min_per_km") # <<>>
                            /\ IsRunningName(activity_type_name)
                            /\ \/ FormatPaceRaises(stats.avg_pace)
                               \/ FormatPaceRaises(stats.best_pace)
                         THEN "OverflowError" ELSE "none"]

-----------------------------------------------------------------------------
(* analyze_personal_records *)

AnyPositive(acts, key) == \E i \in 1..Len(acts) : Gt(acts[i][key], Zero)

\* `max(acts, key) if any(a[key] > 0 ...) else None`, as <<activity>> or <<>>
RecordMax(acts, key) == IF AnyPositive(acts, key) THEN <<MaxBy(acts, key)>> ELSE <<>>
RecordMin(acts, key) == IF AnyPositive(acts, key) THEN <<MinBy(acts, key)>> ELSE <<>>
\* `if record and record[key] > 0:` the record is printed
Reported(rec, key) == IF rec # <<>> /\ Gt(rec[1][key], Zero) THEN rec ELSE <<>>

\* analyze_personal_records(activities, activity_type): the records it prints,
\* each <<activity>> or <<>> when the record is not printed
analyze_personal_records(acts, activity_type) ==
    IF acts = <<>>
    THEN [fn |-> "analyze_personal_records", arg |-> activity_type, printed |-> "",
          longest |-> <<>>, fastest_speed |-> <<>>, steepest_climb |-> <<>>,
          best_pace_activity |-> <<>>, raised |-> "none"]
    ELSE [fn |-> "analyze_personal_records", arg |-> activity_type,
          printed |-> "PERSONAL RECORDS",
          longest |-> <<MaxBy(acts, "distance_km")>>,
          fastest_speed |-> Reported(RecordMax(acts, "avg_speed_kmh"), "avg_speed_kmh"),
          steepest_climb |-> Reported(RecordMax(acts, "max_grade"), "max_grade"),
          best_pace_activity |->
              IF IsRunningName(activity_type)
              THEN Reported(RecordMin(acts, "pace_min_per_km"), "pace_min_per_km")
              ELSE <<>>,
          raised |->
              IF /\ IsRunningName(activity_type)
                 /\ Reported(RecordMin(acts, "pace_min_per_km"), "pace_min_per_km") # <<>>
                 /\ FormatPaceRaises(MinBy(acts, "pace_min_per_km").pace_min_per_km)
              THEN "OverflowError" ELSE "none"]

-----------------------------------------------------------------------------
(* compare_running_vs_cycling *)

\* compare_running_vs_cycling(running_act, cycling_act): the message of an early
\* return, the divisors of the divisions it performs, in order, and the exception
\* that leaves it (a division stops the function when its divisor is 0)
compare_running_vs_cycling(running_act, cycling_act) ==
    LET total_activities == Num(Len(running_act) + Len(cycling_act))
        run_total_km == Sum(Values(running_act, "distance_km"))
        cycle_total_km == Sum(Values(cycling_act, "distance_km"))
        total_distance == Add(run_total_km, cycle_total_km)
        run_avg_distance == Div(run_total_km, Num(Len(running_act)))
        cycle_avg_distance == Div(cycle_total_km, Num(Len(cycling_act)))
        divisors ==
            <<total_activities, total_distance, total_distance,
              Num(Len(running_act)), Num(Len(cycling_act))>>
            \o (IF Gt(run_avg_distance, cycle_avg_distance) THEN <<cycle_avg_distance>>
                ELSE IF Gt(cycle_avg_distance, run_avg_distance) THEN <<run_avg_distance>>
                ELSE <<>>)
    IN  IF running_act = <<>>
        THEN [fn |-> "compare_running_vs_cycling", printed |-> "No running activities found to compare!",
              divisors |-> <<>>, raised |-> "none"]
        ELSE IF cycling_act = <<>>
        THEN [fn |-> "compare_running_vs_cycling", printed |-> "No cycling activities found to compare!",
              divisors |-> <<>>, raised |-> "none"]
        ELSE [fn |-> "compare_running_vs_cycling", printed |-> "comparison",
              divisors |-> divisors,
              raised |-> IF \E i \in 1..Len(divisors) : FEq(divisors[i], Zero)
                         THEN "ZeroDivisionError" ELSE "none"]

-----------------------------------------------------------------------------
(* defaultdict: a sequence of [key, val] in the order the keys were inserted *)

HasKey(d, k) == \E i \in 1..Len(d) : d[i].key = k
\* d[k], which on a missing key of a defaultdict gives the default
Get(d, k, default) ==
    IF HasKey(d, k) THEN d[CHOOSE i \in 1..Len(d) : d[i].key = k].val ELSE default
\* the dictionary after a lookup d[k]: a missing key is inserted with the default
Touch(d, k, default) ==
    IF HasKey(d, k) THEN d ELSE Append(d, [key |-> k, val |-> default])
\* the dictionary after d[k] = v
Put(d, k, v) ==
    IF HasKey(d, k) THEN [i \in 1..Len(d) |-> IF d[i].key = k THEN [key |-> k, val |-> v] ELSE d[i]]
    ELSE Append(d, [key |-> k, val |-> v])
\* set(d.keys())
KeySet(d) == {d[i].key : i \in 1..Len(d)}

\* `for a in acts: d[key of a] += 1` on a defaultdict(int), keys[i] the key of acts[i]
RECURSIVE CountIntoTo(_, _)
CountIntoTo(keys, n) ==
    IF n = 0 THEN <<>>
    ELSE LET d == CountIntoTo(keys, n - 1)
         IN  Put(d, keys[n], Get(d, keys[n], 0) + 1)
CountInto(keys) == CountIntoTo(keys, Len(keys))
\* `for a in acts: d[key of a] += a['distance_km']` on a defaultdict(float)
RECURSIVE DistanceIntoTo(_, _, _)
DistanceIntoTo(keys, acts, n) ==
    IF n = 0 THEN <<>>
    ELSE LET d == DistanceIntoTo(keys, acts, n - 1)
         IN  Put(d, keys[n], Add(Get(d, keys[n], Zero), acts[n].distance_km))
DistanceInto(keys, acts) == DistanceIntoTo(keys, acts, Len(acts))

\* max(d, key=d.get) over integer values: the first key no later key has more than
RECURSIVE MaxKeyTo(_, _)
MaxKeyTo(d, n) ==
    IF n = 1 THEN d[1]
    ELSE LET b == MaxKeyTo(d, n - 1) IN IF d[n].val > b.val THEN d[n] ELSE b
MaxKey(d) == MaxKeyTo(d, Len(d)).key

-----------------------------------------------------------------------------
(* analyze_weekly_patterns *)

days_order == <<"Monday", "Tuesday", "Wednesday", "Thursday", "Friday", "Saturday", "Sunday">>

\* line 290 without its condition
AvgDistNoGuard(total_dist, count) == Div(total_dist, Num(count))
\* line 290: `total_dist / count if count > 0 else 0`
AvgDist(total_dist, count) == IF count > 0 THEN Div(total_dist, Num(count)) ELSE Zero

\* the dictionary after the lookups d[day] of the loop over days_order
RECURSIVE TouchDaysTo(_, _, _)
TouchDaysTo(d, default, n) ==
    IF n = 0 THEN d ELSE Touch(TouchDaysTo(d, default, n - 1), days_order[n], default)

\* lines 273-296: the table printed, one line per day of days_order, and the favorite day
analyze_weekly_patterns(acts, activity_type) ==
    LET days == [i \in 1..Len(acts) |-> acts[i].day_of_week]
        day_counts == CountInto(days)
        day_distances == DistanceInto(days, acts)
        Line(day) ==
            LET count == Get(day_counts, day, 0)
                total_dist == Get(day_distances, day, Zero)
            IN  [day |-> day, count |-> count, total_dist |-> total_dist,
                 avg_dist |-> AvgDist(total_dist, count),
                 divisors |-> IF count > 0 THEN <<count>> ELSE <<>>]
        lines == [i \in 1..Len(days_order) |-> Line(days_order[i])]
        counts_after == TouchDaysTo(day_counts, 0, Len(days_order))
        favorite_day == IF counts_after # <<>> THEN MaxKey(counts_after) ELSE "None"
    IN  [fn |-> "analyze_weekly_patterns", arg |-> activity_type,
         lines |-> lines,
         favorite_day |-> favorite_day,
         favorite_count |-> Get(counts_after, favorite_day, 0),
         raised |-> IF \E i \in 1..Len(lines) : IsError(lines[i].avg_dist)
                    THEN "ZeroDivisionError" ELSE "none"]

-----------------------------------------------------------------------------
(* analyze_time_of_day_patterns *)

\* list(range(a, b))
RangeList(a, b) == [i \in 1..(b - a) |-> a + i - 1]

\* lines 311-317: the dictionary `periods`, in the order it is written
periods ==
    <<[key |-> "Early Morning (5-8 AM)", val |-> RangeList(5, 9)],
      [key |-> "Morning (9-11 AM)", val |-> RangeList(9, 12)],
      [key |-> "Afternoon (12-4 PM)", val |-> RangeList(12, 17)],
      [key |-> "Evening (5-8 PM)", val |-> RangeList(17, 21)],
      [key |-> "Night (9 PM - 4 AM)", val |-> RangeList(21, 24) \o RangeList(0, 5)]>>

\* line 322: sum(hour_counts[hour] for hour in hours)
RECURSIVE SumCounts(_, _)
SumCounts(hour_counts, hours) ==
    IF hours = <<>> THEN 0
    ELSE Get(hour_counts, Head(hours), 0) + SumCounts(hour_counts, Tail(hours))

\* sorted(items, key=lambda x: x[1], reverse=True): the greater value first, items
\* of equal value in their former order
RECURSIVE InsertDesc(_, _)
InsertDesc(s, x) ==
    IF s = <<>> THEN <<x>>
    ELSE IF x.val > Head(s).val THEN <<x>> \o s
    ELSE <<Head(s)>> \o InsertDesc(Tail(s), x)
RECURSIVE SortedDescTo(_, _)
SortedDescTo(items, n) == IF n = 0 THEN <<>> ELSE InsertDesc(SortedDescTo(items, n - 1), items[n])
SortedDesc(items) == SortedDescTo(items, Len(items))

\* the loop of lines 325-328 without the condition of line 326
PrintedPeriodsAll(items) == items
\* lines 325-326: the items the loop prints a line for
PrintedPeriods(items) == LET Positive(x) == x.val > 0 IN SelectSeq(items, Positive)

\* lines 300-328
analyze_time_of_day_patterns(acts, activity_type) ==
    LET hour_counts == CountInto([i \in 1..Len(acts) |-> acts[i].hour])
        period_counts == [i \in 1..Len(periods) |->
                            [key |-> periods[i].key, val |-> SumCounts(hour_counts, periods[i].val)]]
        shown == PrintedPeriods(SortedDesc(period_counts))
        lines == [i \in 1..Len(shown) |->
                    [period |-> shown[i].key, count |-> shown[i].val,
                     percentage |-> Mul(Div(Num(shown[i].val), Num(Len(acts))), Num(100))]]
    IN  [fn |-> "analyze_time_of_day_patterns", arg |-> activity_type,
         period_counts |-> period_counts,
         lines |-> lines,
         divisors |-> [i \in 1..Len(shown) |-> Len(acts)],
         raised |-> IF Len(shown) > 0 /\ Len(acts) = 0 THEN "ZeroDivisionError" ELSE "none"]

-----------------------------------------------------------------------------
(* analyze_gear_usage *)

\* lines 369-393: nothing when no activity names its gear, else one block per gear,
\* the gear used most first
analyze_gear_usage(acts, activity_type) ==
    LET gears == [i \in 1..Len(acts) |->
                    IF acts[i].gear \notin {<<>>, None} THEN acts[i].gear
                    ELSE <<"No gear specified">>]
        gear_counts == CountInto(gears)
        gear_distances == DistanceInto(gears, acts)
        shown == SortedDesc(gear_counts)
    IN  IF \A i \in 1..Len(acts) : acts[i].gear \in {<<>>, None}
        THEN [fn |-> "analyze_gear_usage", arg |-> activity_type, lines |-> <<>>,
              raised |-> "none"]
        ELSE [fn |-> "analyze_gear_usage", arg |-> activity_type,
              lines |-> [i \in 1..Len(shown) |->
                           [gear |-> shown[i].key, count |-> shown[i].val,
                            distance |-> Get(gear_distances, shown[i].key, Zero),
                            avg_distance |-> Div(Get(gear_distances, shown[i].key, Zero),
                                                 Num(shown[i].val))]],
              raised |-> "none"]

-----------------------------------------------------------------------------
(* analyze_monthly_patterns and create_text_bar_chart *)

DigitChars == <<"0", "1", "2", "3", "4", "5", "6", "7", "8", "9">>
\* the decimal digits of n >= 0, at least `width` of them
RECURSIVE Decimal(_, _)
Decimal(n, width) ==
    IF n < 10 /\ width <= 1 THEN <<DigitChars[n + 1]>>
    ELSE Append(Decimal(n \div 10, width - 1), DigitChars[(n % 10) + 1])

\* date.strftime('%Y-%m'): the month has two digits; the year has four, except
\* that a C library which does not pad gives a year below 1000 its own digits
StrftimeYm(dt) ==
    Decimal(dt.year, IF libc_pads_year THEN 4 ELSE 1) \o <<"-">> \o Decimal(dt.month, 2)

\* the code point of a character of such a text
Ord(c) == IF c = "-" THEN 45 ELSE 47 + (CHOOSE i \in 1..10 : DigitChars[i] = c)
\* s < t for two str: the first differing character decides, a proper prefix is smaller
RECURSIVE StrLt(_, _)
StrLt(s, t) ==
    IF t = <<>> THEN FALSE
    ELSE IF s = <<>> THEN TRUE
    ELSE IF Head(s) # Head(t) THEN Ord(Head(s)) < Ord(Head(t))
    ELSE StrLt(Tail(s), Tail(t))
\* sorted(S) for a set of str
RECURSIVE SortedStrs(_)
SortedStrs(S) ==
    IF S = {} THEN <<>>
    ELSE LET m == CHOOSE x \in S : \A y \in S \ {x} : StrLt(x, y)
         IN  <<m>> \o SortedStrs(S \ {m})

\* line 469: `all_months[-12:] if len(all_months) >= 12 else all_months`
RecentMonths(all_months) ==
    IF Len(all_months) >= 12
    THEN SubSeq(all_months, Len(all_months) - 11, Len(all_months))
    ELSE all_months

\* lines 472-474: {month: monthly[month] for month in recent_months if monthly[month] > 0}
RECURSIVE RecentOf(_, _)
RecentOf(monthly, recent_months) ==
    IF recent_months = <<>> THEN <<>>
    ELSE LET month == Head(recent_months)
         IN  (IF Get(monthly, month, 0) > 0
              THEN <<[key |-> month, val |-> Get(monthly, month, 0)]>> ELSE <<>>)
             \o RecentOf(monthly, Tail(recent_months))

\* max(data_dict.values())
RECURSIVE MaxValTo(_, _)
MaxValTo(d, n) ==
    IF n = 1 THEN d[1].val
    ELSE LET b == MaxValTo(d, n - 1) IN IF d[n].val > b THEN d[n].val ELSE b
\* lines 397-431: the bars printed, or "No data to display"
create_text_bar_chart(data_dict, title) ==
    IF data_dict = <<>> THEN [title |-> title, bars |-> <<>>]
    ELSE LET max_value == MaxValTo(data_dict, Len(data_dict))
         IN  [title |-> title,
              bars |-> [i \in 1..Len(data_dict) |->
                          [month |-> data_dict[i].key,
                           bar_length |-> IF max_value > 0
                                          THEN (data_dict[i].val * 40) \div max_value ELSE 0,
                           count |-> data_dict[i].val]]]

\* lines 435-484
analyze_monthly_patterns(running, cycling, other) ==
    LET MonthKeys(acts) == [i \in 1..Len(acts) |-> StrftimeYm(acts[i].date)]
        monthly_running == CountInto(MonthKeys(running))
        monthly_cycling == CountInto(MonthKeys(cycling))
        monthly_other == CountInto(MonthKeys(other))
        all_months == SortedStrs(KeySet(monthly_running) \cup KeySet(monthly_cycling)
                                 \cup KeySet(monthly_other))
        recent_months == RecentMonths(all_months)
        recent_running == RecentOf(monthly_running, recent_months)
        recent_cycling == RecentOf(monthly_cycling, recent_months)
        recent_other == RecentOf(monthly_other, recent_months)
    IN  [fn |-> "analyze_monthly_patterns", arg |-> <<>>,
         recent_months |-> recent_months,
         recent_running |-> recent_running,
         recent_cycling |-> recent_cycling,
         recent_other |-> recent_other,
         charts |-> (IF recent_running # <<>>
                     THEN <<create_text_bar_chart(recent_running, "RUNNING ACTIVITIES BY MONTH")>>
                     ELSE <<>>)
                    \o (IF recent_cycling # <<>>
                        THEN <<create_text_bar_chart(recent_cycling, "CYCLING ACTIVITIES BY MONTH")>>
                        ELSE <<>>)
                    \o (IF recent_other # <<>>
                        THEN <<create_text_bar_chart(recent_other, "OTHER ACTIVITIES BY MONTH")>>
                        ELSE <<>>),
         raised |-> "none"]

-----------------------------------------------------------------------------
(* Direct calls of process_single_row *)

NoActivity == [activity |-> <<>>, printed |-> <<>>]

InitMainIdle ==
    /\ pc = "idle"
    /\ source = [kind |-> "none", rows |-> <<>>]
    /\ idx = 0
    /\ activities = <<>>
    /\ printed = <<>>
    /\ raised = "none"
    /\ running_activities = <<>>
    /\ cycling_activities = <<>>
    /\ other_activities = <<>>
    /\ choice = ""
    /\ out = <<>>
InitCallIdle ==
    /\ argA = <<>>
    /\ argB = <<>>
    /\ argC = <<>>
    /\ libc_pads_year = FALSE
    /\ ret = [fn |-> "none"]
InitRowIdle ==
    /\ row = RowMorningRun
    /\ rowRes = [called |-> FALSE, result |-> NoActivity]

InitRow ==
    /\ InitMainIdle
    /\ InitCallIdle
    /\ \E base \in BaseRows, es \in [1..MaxEdits -> Edits] : row = EditedRow(base, es, MaxEdits)
    /\ rowRes = [called |-> FALSE, result |-> NoActivity]

CallProcessSingleRow ==
    /\ ~rowRes.called
    /\ rowRes' = [called |-> TRUE, result |-> process_single_row(row)]
    /\ UNCHANGED <<row, mainVars, callVars>>

NextRow == CallProcessSingleRow
SpecRow == InitRow /\ [][NextRow]_vars

-----------------------------------------------------------------------------
(* main() *)

\* the names main passes to the analyses
NameRunning == <<"R", "u", "n", "n", "i", "n", "g">>
NameCycling == <<"C", "y", "c", "l", "i", "n", "g">>
NameOther == <<"O", "t", "h", "e", "r", " ", "A", "c", "t", "i", "v", "i", "t", "i", "e", "s">>

\* the file: it does not exist, it may not be opened, its bytes stop being UTF-8
\* after the rows given, or it is read to its end
RECURSIVE RowSeqs(_)
RowSeqs(n) ==
    IF n = 0 THEN {<<>>}
    ELSE RowSeqs(n - 1) \cup {Append(rs, r) : rs \in RowSeqs(n - 1), r \in RowPool}
Sources ==
    {[kind |-> k, rows |-> rs] : k \in {"readable", "undecodable"}, rs \in RowSeqs(MaxRows)}
    \cup {[kind |-> k, rows |-> <<>>] : k \in {"missing", "denied"}}

Choices == {"0", "1", "2", "3", "4", "5", "6", "7", "8", "", "9"}

Init ==
    /\ pc = "start"
    /\ source \in Sources
    /\ idx = 0
    /\ activities = <<>>
    /\ printed = <<>>
    /\ raised = "none"
    /\ running_activities = <<>>
    /\ cycling_activities = <<>>
    /\ other_activities = <<>>
    /\ choice = ""
    /\ out = <<>>
    /\ InitRowIdle
    /\ InitCallIdle

Say(kind) == [kind |-> kind, name |-> <<>>]

\* read_csv_file, line 40: open() raises FileNotFoundError, which line 49 catches
OpenMissing ==
    /\ pc = "start"
    /\ source.kind = "missing"
    /\ printed' = Append(printed, Say("ERROR: Could not find file"))
    /\ activities' = <<>>
    /\ pc' = "loaded"
    /\ UNCHANGED <<source, idx, raised, running_activities, cycling_activities,
                   other_activities, choice, out, rowVars, callVars>>

\* line 40: open() raises PermissionError, which no handler of the program catches
OpenDenied ==
    /\ pc = "start"
    /\ source.kind = "denied"
    /\ raised' = "PermissionError"
    /\ pc' = "crashed"
    /\ UNCHANGED <<source, idx, activities, printed, running_activities,
                   cycling_activities, other_activities, choice, out, rowVars, callVars>>

\* line 40: the file is open
OpenOk ==
    /\ pc = "start"
    /\ source.kind \in {"readable", "undecodable"}
    /\ pc' = "reading"
    /\ UNCHANGED <<source, idx, activities, printed, raised, running_activities,
                   cycling_activities, other_activities, choice, out, rowVars, callVars>>

\* lines 45-47: the list after one row
AfterRowReset(acts, r) ==
    IF process_single_row(r).activity # <<>> THEN acts \o process_single_row(r).activity ELSE <<>>
AfterRow(acts, r) ==
    IF process_single_row(r).activity # <<>> THEN acts \o process_single_row(r).activity ELSE acts

\* lines 44-47: one turn of the loop over the rows
ReadRow ==
    /\ pc = "reading"
    /\ idx < Len(source.rows)
    /\ activities' = AfterRow(activities, source.rows[idx + 1])
    /\ printed' = printed \o process_single_row(source.rows[idx + 1]).printed
    /\ idx' = idx + 1
    /\ UNCHANGED <<pc, source, raised, running_activities, cycling_activities,
                   other_activities, choice, out, rowVars, callVars>>

\* line 44: the reader raises UnicodeDecodeError, which no handler catches
ReadFails ==
    /\ pc = "reading"
    /\ idx = Len(source.rows)
    /\ source.kind = "undecodable"
    /\ raised' = "UnicodeDecodeError"
    /\ pc' = "crashed"
    /\ UNCHANGED <<source, idx, activities, printed, running_activities,
                   cycling_activities, other_activities, choice, out, rowVars, callVars>>

\* line 54: read_csv_file returns the list
EndOfFile ==
    /\ pc = "reading"
    /\ idx = Len(source.rows)
    /\ source.kind = "readable"
    /\ pc' = "loaded"
    /\ UNCHANGED <<source, idx, activities, printed, raised, running_activities,
                   cycling_activities, other_activities, choice, out, rowVars, callVars>>

\* lines 564-565 without the return of line 566: main goes on to the partition
StopEmptyNoReturn ==
    /\ pc = "loaded"
    /\ activities = <<>>
    /\ printed' = Append(printed, Say("No activities were loaded"))
    /\ running_activities' = separate_running_and_cycling(activities).running
    /\ cycling_activities' = separate_running_and_cycling(activities).cycling
    /\ other_activities' = separate_running_and_cycling(activities).other
    /\ choice' = ""
    /\ pc' = "menu"
    /\ UNCHANGED <<source, idx, activities, raised, out, rowVars, callVars>>
\* lines 564-566: nothing was loaded, main returns
StopEmpty ==
    /\ pc = "loaded"
    /\ activities = <<>>
    /\ printed' = Append(printed, Say("No activities were loaded"))
    /\ pc' = "done"
    /\ UNCHANGED <<source, idx, activities, raised, running_activities, cycling_activities,
                   other_activities, choice, out, rowVars, callVars>>

\* lines 568-578: the partition
Partition ==
    /\ pc = "loaded"
    /\ activities # <<>>
    /\ running_activities' = separate_running_and_cycling(activities).running
    /\ cycling_activities' = separate_running_and_cycling(activities).cycling
    /\ other_activities' = separate_running_and_cycling(activities).other
    /\ choice' = ""
    /\ pc' = "menu"
    /\ UNCHANGED <<source, idx, activities, printed, raised, out, rowVars, callVars>>

\* a call main makes only `if acts:`
IfAny(acts, call) == IF acts # <<>> THEN <<call>> ELSE <<>>

\* lines 598-642: the calls of one turn of the menu loop with choice c, in order
MenuCalls(c) ==
    (IF c \in {"1", "8", ""}
     THEN IfAny(running_activities, calculate_advanced_stats(running_activities, NameRunning))
          \o IfAny(cycling_activities, calculate_advanced_stats(cycling_activities, NameCycling))
          \o IfAny(other_activities, calculate_advanced_stats(other_activities, NameOther))
     ELSE <<>>)
    \o (IF c \in {"2", "8", ""}
        THEN IfAny(running_activities, analyze_weekly_patterns(running_activities, NameRunning))
             \o IfAny(cycling_activities, analyze_weekly_patterns(cycling_activities, NameCycling))
        ELSE <<>>)
    \o (IF c \in {"3", "8", ""}
        THEN IfAny(running_activities, analyze_time_of_day_patterns(running_activities, NameRunning))
             \o IfAny(cycling_activities,
                      analyze_time_of_day_patterns(cycling_activities, NameCycling))
        ELSE <<>>)
    \o (IF c \in {"4", "8", ""}
        THEN IfAny(running_activities, analyze_personal_records(running_activities, NameRunning))
             \o IfAny(cycling_activities, analyze_personal_records(cycling_activities, NameCycling))
        ELSE <<>>)
    \o (IF c \in {"5", "8", ""}
        THEN IfAny(running_activities, analyze_gear_usage(running_activities, NameRunning))
             \o IfAny(cycling_activities, analyze_gear_usage(cycling_activities, NameCycling))
        ELSE <<>>)
    \o (IF c \in {"6", "8", ""}
        THEN <<analyze_monthly_patterns(running_activities, cycling_activities,
                                       other_activities)>>
        ELSE <<>>)
    \o (IF c \in {"7", "8", ""}
        THEN <<compare_running_vs_cycling(running_activities, cycling_activities)>>
        ELSE <<>>)

\* the calls up to the first one an exception leaves
RECURSIVE UntilRaise(_)
UntilRaise(calls) ==
    IF calls = <<>> THEN <<>>
    ELSE IF Head(calls).raised # "none" THEN <<Head(calls)>>
    ELSE <<Head(calls)>> \o UntilRaise(Tail(calls))
Raises(calls) == calls # <<>> /\ calls[Len(calls)].raised # "none"

\* lines 580-642: one turn of the menu loop
Menu ==
    /\ pc = "menu"
    /\ \E c \in Choices :
        LET calls == UntilRaise(MenuCalls(c))
        IN  /\ choice' = c
            /\ out' = calls
            /\ IF Raises(calls)
               THEN /\ pc' = "crashed"
                    /\ raised' = calls[Len(calls)].raised
               ELSE /\ pc' = IF c \in {"0", "8"} THEN "done" ELSE "menu"
                    /\ raised' = raised
    /\ UNCHANGED <<source, idx, activities, printed, running_activities,
                   cycling_activities, other_activities, rowVars, callVars>>

Next ==
    \/ OpenMissing
    \/ OpenDenied
    \/ OpenOk
    \/ ReadRow
    \/ ReadFails
    \/ EndOfFile
    \/ StopEmpty
    \/ Partition
    \/ Menu

Spec == Init /\ [][Next]_vars

-----------------------------------------------------------------------------
(* Direct calls of the aggregator functions *)

\* a run whose Moving Time cell reads inf
RowInfTime == [RowMorningRun EXCEPT !["Moving Time"] = <<"inf">>]

\* the activities process_single_row returns for the rows of the model
StoredPool ==
    {process_single_row(r).activity[1] :
        r \in {x \in RowPool \cup {RowInfTime} : process_single_row(x).activity # <<>>}}
RECURSIVE Collections(_)
Collections(n) ==
    IF n = 0 THEN {<<>>}
    ELSE Collections(n - 1) \cup {Append(c, a) : c \in Collections(n - 1), a \in StoredPool}

TypeNames == {NameRunning, NameCycling, NameOther}

InitCall ==
    /\ InitMainIdle
    /\ InitRowIdle
    /\ argA \in Collections(MaxColl)
    /\ argB \in Collections(1)
    /\ argC = <<>>
    /\ libc_pads_year = FALSE
    /\ ret = [fn |-> "none"]

CallStats ==
    /\ ret.fn = "none"
    /\ \E name \in TypeNames : ret' = calculate_advanced_stats(argA, name)
    /\ UNCHANGED <<argVars, mainVars, rowVars>>

CallRecords ==
    /\ ret.fn = "none"
    /\ \E name \in TypeNames : ret' = analyze_personal_records(argA, name)
    /\ UNCHANGED <<argVars, mainVars, rowVars>>

CallCompare ==
    /\ ret.fn = "none"
    /\ ret' = compare_running_vs_cycling(argA, argB)
    /\ UNCHANGED <<argVars, mainVars, rowVars>>

CallWeekly ==
    /\ ret.fn = "none"
    /\ \E name \in TypeNames : ret' = analyze_weekly_patterns(argA, name)
    /\ UNCHANGED <<argVars, mainVars, rowVars>>

NextCall ==
    \/ CallStats
    \/ CallRecords
    \/ CallCompare
    \/ CallWeekly
SpecCall == InitCall /\ [][NextCall]_vars

-----------------------------------------------------------------------------
(* Direct calls of analyze_monthly_patterns *)

\* the datetime of noon of the first day of the i-th of MaxMonths consecutive
\* months, of which the first is November 2023
MonthDate(i) ==
    [year |-> 2023 + (9 + i) \div 12, month |-> ((9 + i) % 12) + 1, day |-> 1,
     hour |-> 12, minute |-> 0, second |-> 0]
\* a date of a year below 1000, which strptime's %Y reads from the text 0999
AncientDate == [year |-> 999, month |-> 12, day |-> 1, hour |-> 12, minute |-> 0, second |-> 0]
\* the activity process_single_row stores for the morning run moved to the date dt
ActivityAt(dt) ==
    [process_single_row(RowMorningRun).activity[1] EXCEPT
        !.date = dt, !.day_of_week = DayNames[Weekday(dt) + 1], !.hour = dt.hour]

\* one activity for each of the months lo..hi, the latest first / the earliest first
Descending(lo, hi) == [i \in 1..(hi - lo + 1) |-> ActivityAt(MonthDate(hi + 1 - i))]
Ascending(lo, hi) == [i \in 1..(hi - lo + 1) |-> ActivityAt(MonthDate(lo - 1 + i))]

RunningInputs ==
    {<<>>} \cup
    {Descending(lo, hi) \o extra :
        lo \in 1..MaxMonths, hi \in 1..MaxMonths,
        extra \in {<<>>, <<ActivityAt(MonthDate(MaxMonths))>>}}
CyclingInputs ==
    {<<>>} \cup {Ascending(lo, hi) : lo \in {1, 2}, hi \in 2..MaxMonths}
OtherInputs ==
    {<<>>, <<ActivityAt(MonthDate(1))>>, <<ActivityAt(MonthDate(1)), ActivityAt(MonthDate(1))>>,
     <<ActivityAt(MonthDate(MaxMonths))>>, <<ActivityAt(AncientDate)>>,
     <<ActivityAt(AncientDate), ActivityAt(MonthDate(1))>>}

InitMonthly ==
    /\ InitMainIdle
    /\ InitRowIdle
    /\ argA \in RunningInputs
    /\ argB \in CyclingInputs
    /\ argC \in OtherInputs
    /\ libc_pads_year \in BOOLEAN
    /\ ret = [fn |-> "none"]

CallMonthly ==
    /\ ret.fn = "none"
    /\ ret' = analyze_monthly_patterns(argA, argB, argC)
    /\ UNCHANGED <<argVars, mainVars, rowVars>>

NextMonthly == CallMonthly
SpecMonthly == InitMonthly /\ [][NextMonthly]_vars

-----------------------------------------------------------------------------
(* Direct calls of analyze_time_of_day_patterns *)

\* hours of every period: the last hour of each, the first of the early morning
\* and hours of both ranges of the night
SampleHours == {0, 4, 5, 8, 11, 16, 20, 23}
HourDate(h) == [year |-> 2024, month |-> 1, day |-> 1, hour |-> h, minute |-> 0, second |-> 0]
RECURSIVE HourCollections(_)
HourCollections(n) ==
    IF n = 0 THEN {<<>>}
    ELSE HourCollections(n - 1)
         \cup {Append(c, ActivityAt(HourDate(h))) : c \in HourCollections(n - 1), h \in SampleHours}

InitTimeOfDay ==
    /\ InitMainIdle
    /\ InitRowIdle
    /\ argA \in HourCollections(MaxHourColl)
    /\ argB = <<>>
    /\ argC = <<>>
    /\ libc_pads_year = FALSE
    /\ ret = [fn |-> "none"]

CallTimeOfDay ==
    /\ ret.fn = "none"
    /\ \E name \in TypeNames : ret' = analyze_time_of_day_patterns(argA, name)
    /\ UNCHANGED <<argVars, mainVars, rowVars>>

NextTimeOfDay == CallTimeOfDay
SpecTimeOfDay == InitTimeOfDay /\ [][NextTimeOfDay]_vars

-----------------------------------------------------------------------------
(* Properties *)

Range(s) == {s[i] : i \in 1..Len(s)}
Count(v, s) == Cardinality({i \in 1..Len(s) : s[i] = v})
\* s is t with some elements left out, the others in t's order
RECURSIVE IsSubseq(_, _)
IsSubseq(s, t) ==
    IF s = <<>> THEN TRUE
    ELSE IF t = <<>> THEN FALSE
    ELSE IF Head(s) = Head(t) THEN IsSubseq(Tail(s), Tail(t))
    ELSE IsSubseq(s, Tail(t))

\* main has run the partition
Partitioned ==
    \/ pc = "menu"
    \/ pc = "done" /\ activities # <<>>
    \/ pc = "crashed" /\ out # <<>>

\* C1: after the partition the three lists together hold every loaded activity
\* once and none twice, and each list keeps the order of the loaded collection.
C1_PartitionExhaustiveDisjointOrdered ==
    Partitioned =>
        /\ Len(running_activities) + Len(cycling_activities) + Len(other_activities)
               = Len(activities)
        /\ IsSubseq(running_activities, activities)
        /\ IsSubseq(cycling_activities, activities)
        /\ IsSubseq(other_activities, activities)
        /\ \A v \in Range(activities) :
               /\ Count(v, running_activities) + Count(v, cycling_activities)
                      + Count(v, other_activities) = Count(v, activities)
               /\ Cardinality({l \in {1, 2, 3} :
                       v \in Range(<<running_activities, cycling_activities,
                                     other_activities>>[l])}) = 1

\* two different activities, both put in the running list
C1_Witness ==
    /\ pc = "menu"
    /\ Len(running_activities) = 2
    /\ running_activities[1] # running_activities[2]

HasRun(type) == Contains(Lower(type), <<"r", "u", "n">>)
HasCycle(type) ==
    \/ Contains(Lower(type), <<"r", "i", "d", "e">>)
    \/ Contains(Lower(type), <<"c", "y", "c", "l", "i", "n", "g">>)
    \/ Contains(Lower(type), <<"b", "i", "k", "e">>)

\* C2: an activity is in the running list exactly when its lower-cased type holds
\* "run", in the cycling list exactly when it holds no "run" but one of "ride",
\* "cycling", "bike", and in the other list otherwise; a type with "run" and a
\* cycling keyword is running, never cycling.
C2_FirstMatchWins ==
    Partitioned =>
        \A a \in Range(activities) :
            /\ a \in Range(running_activities) <=> HasRun(a.type)
            /\ a \in Range(cycling_activities) <=> ~HasRun(a.type) /\ HasCycle(a.type)
            /\ a \in Range(other_activities) <=> ~HasRun(a.type) /\ ~HasCycle(a.type)
            /\ a.type = <<"M", "o", "r", "n", "i", "n", "g", " ", "R", "u", "n">> => a \in Range(running_activities)
            /\ a.type = <<"R", "o", "a", "d", " ", "R", "i", "d", "e">> => a \in Range(cycling_activities)
            /\ a.type = <<"Y", "o", "g", "a">> => a \in Range(other_activities)
            /\ a.type = <<"R", "u", "n", " ", "C", "o", "m", "m", "u", "t", "e">> => a \in Range(running_activities)
            /\ a.type = <<"E", "-", "B", "I", "K", "E">> => a \in Range(cycling_activities)
            /\ a.type = <<"R", "i", "d", "e", "+", "R", "u", "n">> =>
                   a \in Range(running_activities) /\ a \notin Range(cycling_activities)

\* an activity whose type holds "run" and "ride" has been put in the running list
C2_Witness ==
    /\ pc = "menu"
    /\ \E a \in Range(running_activities) : HasRun(a.type) /\ HasCycle(a.type)
    /\ cycling_activities # <<>>

\* the activities process_single_row returns for the rows rs, row by row
RECURSIVE AcceptedOf(_)
AcceptedOf(rs) ==
    IF rs = <<>> THEN <<>>
    ELSE process_single_row(Head(rs)).activity \o AcceptedOf(Tail(rs))

\* C3: while and after a file is read, the list holds exactly the activities of the
\* rows read so far that process_single_row accepts alone, in file order; no
\* exception leaves the loop of a readable file, and the loop reads every row.
C3_RowFaultsIsolated ==
    /\ pc = "reading" => activities = AcceptedOf(SubSeq(source.rows, 1, idx))
    /\ source.kind = "readable" =>
           /\ pc \in {"start", "reading", "loaded"} => raised = "none"
           /\ pc \notin {"start", "reading"} =>
                  /\ idx = Len(source.rows)
                  /\ activities = AcceptedOf(source.rows)

\* a file whose first row lacks cells and whose second row was then stored
C3_Witness ==
    /\ pc = "loaded"
    /\ source.kind = "readable"
    /\ Len(source.rows) = 2
    /\ source.rows[1] = RowShort
    /\ Len(activities) = 1
    /\ Len(printed) = 1

\* C4: every stored activity has distance_km > 0, a weekday name and an hour 0..23.
C4_StoredActivitiesValid ==
    \A i \in 1..Len(activities) :
        /\ Gt(activities[i].distance_km, Zero)
        /\ activities[i].day_of_week \in Range(DayNames)
        /\ activities[i].hour \in 0..23

NumberFields == {"distance_km", "time_seconds", "elapsed_time", "elevation_low",
                 "elevation_high", "max_heart_rate", "max_speed", "max_grade", "avg_grade"}
ColumnOfField(f) ==
    CASE f = "distance_km" -> "Distance_KM"
      [] f = "time_seconds" -> "Moving Time"
      [] f = "elapsed_time" -> "Elapsed Time"
      [] f = "elevation_low" -> "Elevation Low"
      [] f = "elevation_high" -> "Elevation High"
      [] f = "max_heart_rate" -> "Max Heart Rate"
      [] f = "max_speed" -> "Max Speed"
      [] f = "max_grade" -> "Max Grade"
      [] f = "avg_grade" -> "Average Grade"
Accepted == rowRes.called /\ rowRes.result.activity # <<>>
IsOneFloatWord(t) == Len(Strip(t, Whitespace)) = 1 /\ Strip(t, Whitespace)[1] \in FloatWords

\* C5 as stated: every numeric field of an accepted row's activity is finite and
\* not negative.
C5_NumericFieldsFiniteNonNegative ==
    Accepted =>
        \A f \in NumberFields :
            /\ IsFinite(rowRes.result.activity[1][f])
            /\ ~Lt(rowRes.result.activity[1][f], Zero)

\* C5, amended: every numeric field of an accepted row's activity is a number,
\* never null: the value its cell's text reads as (negative values, nan and the
\* infinities included), and 0 for a missing, empty or unreadable cell; the speeds
\* in km/h are never negative and never nan, and the distance is never <= 0.
C5_NumericFieldsAsParsed ==
    Accepted =>
        /\ \A f \in NumberFields :
               /\ rowRes.result.activity[1][f].k \in {"fin", "nan", "inf"}
               /\ IF row[ColumnOfField(f)] # None /\ IsOneFloatWord(row[ColumnOfField(f)])
                  THEN rowRes.result.activity[1][f]
                           = FloatOfWord(Strip(row[ColumnOfField(f)], Whitespace)[1])
                  ELSE rowRes.result.activity[1][f] = Zero
        /\ row["Elevation Low"] = <<"-3">> => rowRes.result.activity[1].elevation_low = Num(-3)
        /\ row["Average Grade"] = <<"-0.5">> => rowRes.result.activity[1].avg_grade = Fin(-1, 2)
        /\ \A f \in {"avg_speed_kmh", "max_speed_kmh"} :
               /\ ~IsNaN(rowRes.result.activity[1][f])
               /\ ~Lt(rowRes.result.activity[1][f], Zero)
        /\ ~Le(rowRes.result.activity[1].distance_km, Zero)

\* an accepted row whose Elevation Low reads -3 and whose Max Speed reads -3
C5_Witness ==
    /\ Accepted
    /\ row["Elevation Low"] = <<"-3">>
    /\ row["Max Speed"] = <<"-3">>
    /\ rowRes.result.activity[1].elevation_low = Num(-3)
    /\ rowRes.result.activity[1].max_speed_kmh = Zero

\* C6: a source that cannot be opened or read makes read_csv_file return an empty
\* list with a printed error, and no exception leaves it.
C6_UnreadableSourceReturnsEmpty ==
    source.kind # "readable" =>
        /\ raised = "none"
        /\ pc \in {"loaded", "done"} =>
               /\ activities = <<>>
               /\ \E i \in 1..Len(printed) : printed[i].kind = "ERROR: Could not find file"

StatsOnEmpty == ret.fn = "calculate_advanced_stats" /\ argA = <<>>

\* C7 as stated: on an empty collection every numeric field of the returned
\* statistics is present and 0.
C7_EmptyStatsAllZero ==
    StatsOnEmpty =>
        /\ ret.raised = "none"
        /\ \A key \in StatKeys : key \in DOMAIN ret.stats /\ ret.stats[key] = Zero

\* C7, amended: on an empty collection calculate_advanced_stats does not fail,
\* prints that no activities were found and returns an empty dictionary, with no
\* field present.
C7_EmptyStatsIsEmptyDict ==
    StatsOnEmpty =>
        /\ ret.raised = "none"
        /\ ret.printed = "No activities found"
        /\ DOMAIN ret.stats = {}

C7_Witness == StatsOnEmpty

StatsCalled == ret.fn = "calculate_advanced_stats" /\ argA # <<>>
AllIdx == 1..Len(argA)
PosIdx(key) == {i \in AllIdx : Gt(argA[i][key], Zero)}
NonZeroIdx(key) == {i \in AllIdx : ~FEq(argA[i][key], Zero)}
RECURSIVE SumOver(_, _)
SumOver(I, key) ==
    IF I = {} THEN Zero
    ELSE LET i == CHOOSE j \in I : TRUE IN Add(argA[i][key], SumOver(I \ {i}, key))
MeanOver(I, key) == IF I = {} THEN Zero ELSE Div(SumOver(I, key), Num(Cardinality(I)))
IsMaxOver(v, I, key) ==
    IF I = {} THEN v = Zero
    ELSE (\E i \in I : argA[i][key] = v) /\ (\A i \in I : ~Gt(argA[i][key], v))
IsMinOver(v, I, key) ==
    IF I = {} THEN v = Zero
    ELSE (\E i \in I : argA[i][key] = v) /\ (\A i \in I : ~Lt(argA[i][key], v))

C9_CompareDivisorsPositive ==
    \A i \in 1..Len(out) :
        out[i].fn = "compare_running_vs_cycling" =>
            /\ out[i].raised = "none"
            /\ (running_activities = <<>> \/ cycling_activities = <<>>) =>
                   /\ out[i].divisors = <<>>
                   /\ out[i].printed # "comparison"
            /\ (running_activities # <<>> /\ cycling_activities # <<>>) =>
                   /\ out[i].divisors # <<>>
                   /\ \A j \in 1..Len(out[i].divisors) : Gt(out[i].divisors[j], Zero)

RecordsCalled == ret.fn = "analyze_personal_records" /\ argA # <<>>
\* the record printed for key is present exactly when some activity has a positive
\* value, and is then an activity with the greatest value
RecordIsGreatest(rec, key) ==
    /\ rec # <<>> <=> \E i \in AllIdx : Gt(argA[i][key], Zero)
    /\ rec # <<>> =>
           /\ rec[1] \in Range(argA)
           /\ Gt(rec[1][key], Zero)
           /\ \A i \in AllIdx : ~Gt(argA[i][key], rec[1][key])
\* ... and the best pace is an activity with the smallest positive pace
RecordIsSmallestPositive(rec, key) ==
    /\ rec # <<>> <=> \E i \in AllIdx : Gt(argA[i][key], Zero)
    /\ rec # <<>> =>
           /\ rec[1] \in Range(argA)
           /\ Gt(rec[1][key], Zero)
           /\ \A i \in PosIdx(key) : ~Lt(argA[i][key], rec[1][key])

\* C10: on a non-empty collection the longest record is an activity of maximum
\* distance; the fastest, the steepest and (for running) the best pace are
\* reported exactly when some activity has a positive value, and are then the
\* greatest average speed, the greatest max grade and the smallest positive pace.
C10_PersonalRecords ==
    RecordsCalled =>
        /\ ret.longest # <<>>
        /\ ret.longest[1] \in Range(argA)
        /\ \A i \in AllIdx : ~Gt(argA[i].distance_km, ret.longest[1].distance_km)
        /\ RecordIsGreatest(ret.fastest_speed, "avg_speed_kmh")
        /\ RecordIsGreatest(ret.steepest_climb, "max_grade")
        /\ IF IsRunningName(ret.arg)
           THEN RecordIsSmallestPositive(ret.best_pace_activity, "pace_min_per_km")
           ELSE ret.best_pace_activity = <<>>

WeeklyCalled == ret.fn = "analyze_weekly_patterns"
\* the activities of the collection on a day
OnDay(day) == {i \in AllIdx : argA[i].day_of_week = day}

\* C11: for any collection analyze_weekly_patterns gives exactly seven lines, for
\* Monday, Tuesday, ..., Sunday in this order; a line's count and total distance
\* are those of the activities on its day, and on a day without activities the
\* average is 0 and nothing is divided.
C11_WeeklySevenDaysInOrder ==
    WeeklyCalled =>
        /\ Len(ret.lines) = 7
        /\ [i \in 1..7 |-> ret.lines[i].day] =
               <<"Monday", "Tuesday", "Wednesday", "Thursday", "Friday", "Saturday", "Sunday">>
        /\ \A i \in 1..7 :
               LET line == ret.lines[i]
               IN  /\ line.count = Cardinality(OnDay(line.day))
                   /\ line.total_dist = SumOver(OnDay(line.day), "distance_km")
                   /\ line.count = 0 => line.avg_dist = Zero /\ line.divisors = <<>>
                   /\ line.count > 0 =>
                          /\ line.avg_dist = Div(line.total_dist, Num(line.count))
                          /\ line.divisors = <<line.count>>
        /\ ret.raised = "none"
\* two different activities of one day, the other six days without any
C11_Witness ==
    /\ WeeklyCalled
    /\ Len(argA) = 2
    /\ argA[1] # argA[2]
    /\ \E i \in 1..7 : ret.lines[i].count = 2 /\ ret.lines[i].total_dist # Zero
    /\ \E i \in 1..7 : ret.lines[i].count = 0 /\ ret.lines[i].avg_dist = Zero

MonthlyCalled == ret.fn = "analyze_monthly_patterns"
\* the calendar month of an activity, counted in months
MonthIndex(a) == a.date.year * 12 + a.date.month - 1
\* the distinct calendar months present in the three collections together
PresentMonths == {MonthIndex(a) : a \in Range(argA \o argB \o argC)}
\* the 12 most recent of them, all of them when there are fewer
MostRecentMonths == {m \in PresentMonths : Cardinality({n \in PresentMonths : n > m}) < 12}
CountIn(acts, m) == Cardinality({i \in 1..Len(acts) : MonthIndex(acts[i]) = m})
\* the label a calendar month is printed under
LabelOf(m) == StrftimeYm([year |-> m \div 12, month |-> (m % 12) + 1])
\* a series holds one entry for each most recent month in which acts has activities
SeriesOfMostRecent(series, acts) ==
    LET months == {m \in MostRecentMonths : CountIn(acts, m) > 0}
    IN  /\ Range(series) = {[key |-> LabelOf(m), val |-> CountIn(acts, m)] : m \in months}
        /\ Len(series) = Cardinality(months)

\* C12: each category's series holds only months among the 12 most recent distinct
\* calendar months present in the three collections together (all of them when
\* fewer than 12 exist), and of these exactly the months in which the category has
\* at least one activity, each with the category's number of activities.
C12_MonthlyMostRecentTwelve ==
    MonthlyCalled =>
        /\ SeriesOfMostRecent(ret.recent_running, argA)
        /\ SeriesOfMostRecent(ret.recent_cycling, argB)
        /\ SeriesOfMostRecent(ret.recent_other, argC)

\* read_csv_file has returned its list to main
LoadReturned ==
    /\ pc \in {"loaded", "menu", "done"} \/ (pc = "crashed" /\ out # <<>>)
    /\ \/ source.kind = "missing"
       \/ source.kind = "readable" /\ idx = Len(source.rows)
\* the partition, a turn of the menu loop or an aggregator function has run
PipelineRan ==
    \/ pc = "menu"
    \/ out # <<>>
    \/ running_activities # <<>>
    \/ cycling_activities # <<>>
    \/ other_activities # <<>>
    \/ choice # ""
\* the load returned an empty list and main has not yet tested it
EmptyLoad == pc = "loaded" /\ activities = <<>>

\* C13: when the load returns an empty collection main stops: its only step ends
\* the run (no step follows it), and no partition, no turn of the menu loop and no aggregator function
\* is executed then or later; and the partition and the analyses are only ever
\* executed after a load that returned a non-empty collection.
C13_EmptyLoadStops ==
    /\ [](PipelineRan => LoadReturned /\ activities # <<>>)
    /\ [][EmptyLoad => pc' = "done" /\ ~PipelineRan']_vars
    /\ [][~(pc = "done" /\ activities = <<>>)]_vars
    /\ [][PipelineRan' /\ ~PipelineRan => pc = "loaded" /\ activities # <<>>]_vars
\* a file whose rows were all rejected: main has returned without any analysis
C13_Witness ==
    /\ pc = "done"
    /\ activities = <<>>
    /\ source.kind = "readable"
    /\ idx = Len(source.rows)
    /\ idx > 0
    /\ printed[Len(printed)] = Say("No activities were loaded")
    /\ ~PipelineRan

TimeOfDayCalled == ret.fn = "analyze_time_of_day_patterns"
\* the places where the hour h is written in `periods`
PlacesOf(h) == {<<i, j>> \in (1..Len(periods)) \X (1..24) :
                   j <= Len(periods[i].val) /\ periods[i].val[j] = h}
\* the activities of the collection whose hour lies in the i-th period
InPeriod(i) == {a \in AllIdx : argA[a].hour \in Range(periods[i].val)}
RECURSIVE SumVals(_)
SumVals(d) == IF d = <<>> THEN 0 ELSE Head(d).val + SumVals(Tail(d))

\* C14: every hour 0..23 lies in exactly one of the five periods, so the period
\* counts sum to the number of activities; a period is reported exactly when its
\* count is > 0, with the percentage count / number of activities (times 100), the
\* reported periods are in non-increasing order of count, and nothing is divided
\* by zero, for the empty collection too.
C14_TimeOfDayPeriods ==
    TimeOfDayCalled =>
        /\ Len(periods) = 5
        /\ \A h \in 0..23 : Cardinality(PlacesOf(h)) = 1
        /\ \A i \in 1..5 : ret.period_counts[i].val = Cardinality(InPeriod(i))
        /\ SumVals(ret.period_counts) = Len(argA)
        /\ Len(ret.lines) = Cardinality({i \in 1..5 : ret.period_counts[i].val > 0})
        /\ \A i \in 1..5 :
               ret.period_counts[i].val > 0 =>
                   \E l \in 1..Len(ret.lines) :
                       /\ ret.lines[l].period = periods[i].key
                       /\ ret.lines[l].count = ret.period_counts[i].val
        /\ \A l \in 1..Len(ret.lines) :
               /\ ret.lines[l].count > 0
               /\ ret.lines[l].percentage =
                      Mul(Div(Num(ret.lines[l].count), Num(Len(argA))), Num(100))
               /\ l > 1 => ret.lines[l - 1].count >= ret.lines[l].count
        /\ \A d \in 1..Len(ret.divisors) : ret.divisors[d] > 0
        /\ argA = <<>> => ret.lines = <<>> /\ ret.divisors = <<>>
        /\ ret.raised = "none"
\* three activities, two of them in a period that `periods` lists after the period
\* of the third: the later period is reported first
C14_Witness ==
    /\ TimeOfDayCalled
    /\ Len(argA) = 3
    /\ Len(ret.lines) = 2
    /\ ret.lines[1].period = "Night (9 PM - 4 AM)"
    /\ ret.lines[1].count = 2
    /\ ret.lines[1].percentage = Fin(200, 3)
    /\ ret.lines[2].period = "Morning (9-11 AM)"
    /\ {argA[i].hour : i \in 1..3} = {23, 0, 11}
====
